---- MODULE Spec2Model ----
(***************************************************************************)
(* A model of home_work_7.py: the Field/Phone/Birthday validators, Record, *)
(* AddressBook (with get_upcoming_birthdays) and the command loop of main. *)
(*                                                                         *)
(* Python strings are sequences of one-character strings.  A call that may *)
(* raise yields [err, msg, val]: err is "None" when the call returned val, *)
(* else the name of the exception class, with str(e) in msg.               *)
(***************************************************************************)
EXTENDS Integers, Sequences, FiniteSets, TLC

VARIABLES
    data,   \* AddressBook.data: the dict, as its items in insertion order
    ret,    \* the outcome of the last call made on the Record/AddressBook API
    out,    \* what main printed last
    pc      \* main: "running" in the while loop, "exited" after break,
            \* "crashed" when an exception left main

vars == <<data, ret, out, pc>>

(***************************** bounds **************************************)
\* The longest phone list an action lets a record grow to.
MaxPhones == 3
\* The reference dates are the days b, b+1, ..., b+TodaySpan for each base b.
TodaySpan == 9
\* The longest phone list the add command lets a record grow to.
MaxCmdPhones == 2

(************************* Python values ***********************************)
None == [none |-> TRUE]

Ok(v) == [err |-> "None", msg |-> "", val |-> v]

Raise(type, text) == [err |-> type, msg |-> text, val |-> None]

Raised(r) == r.err # "None"

\* A str built by an f-string: its text with the interpolated values.
Str(text, args) == [type |-> "str", fmt |-> text, args |-> args]

Tuple(items) == [type |-> "tuple", items |-> items]

(***************************** str ****************************************)
Digits == <<"0", "1", "2", "3", "4", "5", "6", "7", "8", "9">>

AsciiDigit(c) == \E i \in 1..10 : Digits[i] = c

\* One character, U+00B2 SUPERSCRIPT TWO: Unicode gives it Numeric_Type=Digit
\* (str.isdigit is true of it) but it is no decimal character
\* (str.isdecimal is false, int() rejects it, the regex \d does not match).
SupTwo == "U+00B2"

\* str.isdigit() for one character.
CharIsDigit(c) == AsciiDigit(c) \/ c = SupTwo

\* str.isdigit(): every character is a digit and there is at least one.
isdigit(s) == Len(s) > 0 /\ \A i \in 1..Len(s) : CharIsDigit(s[i])

DigitVal(c) == CHOOSE v \in 0..9 : Digits[v + 1] = c

\* int(s) for a string of ASCII digits.
RECURSIVE ParseInt(_)
ParseInt(s) ==
    IF Len(s) = 0 THEN 0
    ELSE 10 * ParseInt(SubSeq(s, 1, Len(s) - 1)) + DigitVal(s[Len(s)])

UpperCase == <<"A", "B", "C", "D", "E", "F", "G", "H", "I", "J", "K", "L", "M",
               "N", "O", "P", "Q", "R", "S", "T", "U", "V", "W", "X", "Y", "Z">>

LowerCase == <<"a", "b", "c", "d", "e", "f", "g", "h", "i", "j", "k", "l", "m",
               "n", "o", "p", "q", "r", "s", "t", "u", "v", "w", "x", "y", "z">>

\* str.lower()
lower(s) ==
    [i \in 1..Len(s) |->
        IF \E k \in 1..26 : UpperCase[k] = s[i]
        THEN LowerCase[CHOOSE k \in 1..26 : UpperCase[k] = s[i]]
        ELSE s[i]]

IsSpace(c) == c \in {" ", "\t"}

\* str.strip()
RECURSIVE strip(_)
strip(s) ==
    IF Len(s) = 0 THEN s
    ELSE IF IsSpace(s[1]) THEN strip(Tail(s))
    ELSE IF IsSpace(s[Len(s)]) THEN strip(SubSeq(s, 1, Len(s) - 1))
    ELSE s

\* str.split(): the maximal runs of non-whitespace characters, in order.
RECURSIVE SplitFrom(_, _, _)
SplitFrom(s, cur, acc) ==
    IF Len(s) = 0 THEN (IF Len(cur) = 0 THEN acc ELSE Append(acc, cur))
    ELSE IF IsSpace(s[1])
         THEN SplitFrom(Tail(s), <<>>, IF Len(cur) = 0 THEN acc ELSE Append(acc, cur))
         ELSE SplitFrom(Tail(s), Append(cur, s[1]), acc)

split(s) == SplitFrom(s, <<>>, <<>>)

(***************************** datetime.date *******************************)
Date(y, m, d) == [year |-> y, month |-> m, day |-> d]

IsLeap(y) == y % 4 = 0 /\ (y % 100 # 0 \/ y % 400 = 0)

DaysInMonth(y, m) ==
    IF m = 2 THEN (IF IsLeap(y) THEN 29 ELSE 28)
    ELSE IF m \in {4, 6, 9, 11} THEN 30 ELSE 31

DaysBeforeYear(y) ==
    (y - 1) * 365 + ((y - 1) \div 4) - ((y - 1) \div 100) + ((y - 1) \div 400)

RECURSIVE DaysBeforeMonth(_, _)
DaysBeforeMonth(y, m) ==
    IF m = 1 THEN 0 ELSE DaysBeforeMonth(y, m - 1) + DaysInMonth(y, m - 1)

\* date.toordinal(): 1 for 0001-01-01.
toordinal(dt) == DaysBeforeYear(dt.year) + DaysBeforeMonth(dt.year, dt.month) + dt.day

\* date.fromordinal(n), by the algorithm of datetime._ord2ymd.
fromordinal(n) ==
    LET n0   == n - 1
        n400 == n0 \div 146097
        r400 == n0 % 146097
        n100 == r400 \div 36524
        r100 == r400 % 36524
        n4   == r100 \div 1461
        r4   == r100 % 1461
        n1   == r4 \div 365
        r1   == r4 % 365
        year == n400 * 400 + 1 + n100 * 100 + n4 * 4 + n1
        guess == (r1 + 50) \div 32
        before == DaysBeforeMonth(year, guess)
        month == IF before > r1 THEN guess - 1 ELSE guess
    IN  IF n1 = 4 \/ n100 = 4 THEN Date(year - 1, 12, 31)
        ELSE Date(year, month, r1 - DaysBeforeMonth(year, month) + 1)

\* date.weekday(): Monday is 0, Sunday is 6.
weekday(dt) == (toordinal(dt) + 6) % 7

\* date < date
DateLess(a, b) ==
    \/ a.year < b.year
    \/ a.year = b.year /\ a.month < b.month
    \/ a.year = b.year /\ a.month = b.month /\ a.day < b.day

\* date(y, m, d): ValueError unless it is a day of the calendar.
MakeDate(y, m, d) ==
    IF y < 1 \/ y > 9999 THEN Raise("ValueError", "year is out of range")
    ELSE IF m < 1 \/ m > 12 THEN Raise("ValueError", "month must be in 1..12")
    ELSE IF d < 1 \/ d > DaysInMonth(y, m)
         THEN Raise("ValueError", "day is out of range for month")
    ELSE Ok(Date(y, m, d))

\* date.replace(year=y)
replace_year(dt, y) == MakeDate(y, dt.month, dt.day)

\* date + timedelta(days=k)
AddDays(dt, k) == fromordinal(toordinal(dt) + k)

\* (a - b).days
DaysBetween(a, b) == toordinal(a) - toordinal(b)

Pad(v, width) ==
    [i \in 1..width |->
        LET RECURSIVE Pow10(_)
            Pow10(k) == IF k = 0 THEN 1 ELSE 10 * Pow10(k - 1)
        IN  Digits[((v \div Pow10(width - i)) % 10) + 1]]

\* date.strftime("%d.%m.%Y"), for the years 1000..9999.
strftime(dt) == Pad(dt.day, 2) \o <<".">> \o Pad(dt.month, 2) \o <<".">> \o Pad(dt.year, 4)

\* The positions of the "." characters of s.
DotPositions(s) == {i \in 1..Len(s) : s[i] = "."}

AllAsciiDigits(s) == \A i \in 1..Len(s) : AsciiDigit(s[i])

\* The regex of %d: 3[0-1] | [1-2]\d | 0[1-9] | [1-9] | " "[1-9]
MatchesDay(s) ==
    \/ Len(s) = 2 /\ AllAsciiDigits(s) /\ ParseInt(s) \in 1..31
    \/ Len(s) = 1 /\ AllAsciiDigits(s) /\ ParseInt(s) \in 1..9
    \/ Len(s) = 2 /\ s[1] = " " /\ AsciiDigit(s[2]) /\ DigitVal(s[2]) \in 1..9

\* The regex of %m: 1[0-2] | 0[1-9] | [1-9]
MatchesMonth(s) ==
    \/ Len(s) = 2 /\ AllAsciiDigits(s) /\ ParseInt(s) \in 1..12
    \/ Len(s) = 1 /\ AllAsciiDigits(s) /\ ParseInt(s) \in 1..9

\* The regex of %Y: \d\d\d\d
MatchesYear(s) == Len(s) = 4 /\ AllAsciiDigits(s)

\* datetime.strptime(value, "%d.%m.%Y").date()
strptime(value) ==
    LET dots == DotPositions(value)
        p1 == CHOOSE i \in dots : \A j \in dots : i <= j
        p2 == CHOOSE i \in dots : \A j \in dots : i >= j
        ds == SubSeq(value, 1, p1 - 1)
        ms == SubSeq(value, p1 + 1, p2 - 1)
        ys == SubSeq(value, p2 + 1, Len(value))
        dv == IF ds[1] = " " THEN DigitVal(ds[2]) ELSE ParseInt(ds)
    IN  IF Cardinality(dots) # 2
        THEN Raise("ValueError", "time data does not match format")
        ELSE IF ~(MatchesDay(ds) /\ MatchesMonth(ms) /\ MatchesYear(ys))
        THEN Raise("ValueError", "time data does not match format")
        ELSE MakeDate(ParseInt(ys), ParseInt(ms), dv)

(***************************** Field classes *******************************)
\* Phone.validate
Phone_validate(number) ==
    IF ~isdigit(number) \/ Len(number) # 10
    THEN Raise("ValueError", "Wrong format! Phone number must be 10 digits long.")
    ELSE Ok(None)

\* Phone(number): validate, then Field.__init__ stores the value.
Phone(number) ==
    LET checked == Phone_validate(number)
    IN  IF Raised(checked) THEN checked ELSE Ok([value |-> number])

\* Birthday.validate
Birthday_validate(value) ==
    LET parsed == strptime(value)
    IN  IF Raised(parsed)
        THEN Raise("ValueError", "Invalid date format. Use DD.MM.YYYY")
        ELSE Ok(None)

\* Birthday(value): validate, parse the date, then store the value.
Birthday(value) ==
    LET checked == Birthday_validate(value)
    IN  IF Raised(checked) THEN checked
        ELSE Ok([value |-> value, date |-> strptime(value).val])

(******************************* Record ************************************)
\* The outcome r of a method, with the object as the method left it.
OnSelf(r, self) == [err |-> r.err, msg |-> r.msg, val |-> r.val, self |-> self]

\* Record(name)
Record(name) == [name |-> name, phones |-> <<>>, birthday |-> None]

\* Record.add_phone
add_phone(self, phone) ==
    LET made == Phone(phone)
    IN  IF Raised(made) THEN OnSelf(made, self)
        ELSE OnSelf(Ok(None), [self EXCEPT !.phones = Append(@, made.val)])

\* Record.remove_phone, were it to remove the first equal phone only.
remove_phone_first_only(self, removed_phone) ==
    LET hits == {i \in 1..Len(self.phones) : self.phones[i].value = removed_phone}
        first == CHOOSE i \in hits : \A j \in hits : i <= j
    IN  [err |-> "None", msg |-> "", val |-> None,
         self |-> IF hits = {} THEN self
                  ELSE [self EXCEPT !.phones = SubSeq(@, 1, first - 1)
                                                 \o SubSeq(@, first + 1, Len(@))]]

\* Record.remove_phone
remove_phone(self, removed_phone) ==
    OnSelf(Ok(None),
           [self EXCEPT !.phones = SelectSeq(@, LAMBDA phone : phone.value # removed_phone)])

\* The indices of the phones equal to a value.
PhoneIndices(self, value) == {i \in 1..Len(self.phones) : self.phones[i].value = value}

FirstIndex(S) == CHOOSE i \in S : \A j \in S : i <= j

\* Record.edit_phone, were it to replace every phone equal to old_phone.
edit_phone_every_match(self, old_phone, new_phone) ==
    LET found == PhoneIndices(self, old_phone)
        made == Phone(new_phone)
    IN  IF found = {}
        THEN OnSelf(Raise("ValueError", "Phone number not found."), self)
        ELSE IF Raised(made) THEN OnSelf(made, self)
        ELSE OnSelf(Ok(None),
                    [self EXCEPT !.phones = [i \in 1..Len(@) |->
                                                IF i \in found THEN made.val ELSE @[i]]])

\* Record.edit_phone
edit_phone(self, old_phone, new_phone) ==
    LET found == PhoneIndices(self, old_phone)
        made == Phone(new_phone)
    IN  IF found = {}
        THEN OnSelf(Raise("ValueError", "Phone number not found."), self)
        ELSE IF Raised(made) THEN OnSelf(made, self)
        ELSE OnSelf(Ok(None), [self EXCEPT !.phones[FirstIndex(found)] = made.val])

\* Record.find_phone
find_phone(self, this_phone) ==
    LET found == PhoneIndices(self, this_phone)
    IN  IF found = {} THEN OnSelf(Ok(None), self)
        ELSE OnSelf(Ok(self.phones[FirstIndex(found)]), self)

\* Record.add_birthday
add_birthday(self, date) ==
    LET made == Birthday(date)
    IN  IF Raised(made) THEN OnSelf(made, self)
        ELSE OnSelf(Ok(None), [self EXCEPT !.birthday = made.val])

(***************************** AddressBook *********************************)
\* The outcome r of a method, with the dict as the method left it.
OnData(r, d) == [err |-> r.err, msg |-> r.msg, val |-> r.val, data |-> d]

Keys(d) == {d[i].key : i \in 1..Len(d)}

\* The positions of a key among the items.
KeyIndices(d, k) == {i \in 1..Len(d) : d[i].key = k}

\* d[k] = v: a key the dict holds keeps its position, a new key goes last.
SetItem(d, k, v) ==
    IF KeyIndices(d, k) = {} THEN Append(d, [key |-> k, rec |-> v])
    ELSE [d EXCEPT ![FirstIndex(KeyIndices(d, k))].rec = v]

\* del d[k]
DelItem(d, k) == SelectSeq(d, LAMBDA item : item.key # k)

\* AddressBook.add_record, were it to append whatever the dict holds.
add_record_appends(d, record) ==
    OnData(Ok(None), Append(d, [key |-> record.name, rec |-> record]))

\* AddressBook.add_record
add_record(d, record) == OnData(Ok(None), SetItem(d, record.name, record))

\* AddressBook.find
find(d, name) ==
    IF KeyIndices(d, name) = {} THEN OnData(Ok(None), d)
    ELSE OnData(Ok(d[FirstIndex(KeyIndices(d, name))].rec), d)

\* AddressBook.delete, were it to pass over a missing name in silence.
delete_ignores_missing(d, name) == OnData(Ok(None), DelItem(d, name))

\* AddressBook.delete
delete(d, name) ==
    IF KeyIndices(d, name) = {} THEN OnData(Raise("KeyError", "'Name not found'"), d)
    ELSE OnData(Ok(None), DelItem(d, name))

\* find_next_weekday of get_upcoming_birthdays
find_next_weekday(start_date, wd) ==
    LET days_ahead == wd - weekday(start_date)
    IN  AddDays(start_date, IF days_ahead <= 0 THEN days_ahead + 7 ELSE days_ahead)

\* adjust_for_weekend, were it to move Sundays only.
adjust_for_weekend_sunday_only(birthday) ==
    IF weekday(birthday) > 5 THEN find_next_weekday(birthday, 0) ELSE birthday

\* adjust_for_weekend of get_upcoming_birthdays
adjust_for_weekend(birthday) ==
    IF weekday(birthday) >= 5 THEN find_next_weekday(birthday, 0) ELSE birthday

\* next_birthday of get_upcoming_birthdays: the birthday in today's year, or
\* in the next year when that day is before today; date.replace may raise.
next_birthday(user_birthday, today) ==
    LET this_year == replace_year(user_birthday, today.year)
    IN  IF Raised(this_year) THEN this_year
        ELSE IF DateLess(this_year.val, today)
        THEN replace_year(user_birthday, today.year + 1)
        ELSE this_year

\* The window test of get_upcoming_birthdays.
InWindow(nb, today) ==
    LET days == DaysBetween(nb, today) IN 0 <= days /\ days <= 7

\* The loop of get_upcoming_birthdays from item i on, upcoming_birthdays being acc.
RECURSIVE UpcomingFrom(_, _, _, _)
UpcomingFrom(d, today, i, acc) ==
    IF i > Len(d) THEN Ok(acc)
    ELSE IF d[i].rec.birthday = None THEN UpcomingFrom(d, today, i + 1, acc)
    ELSE LET nb == next_birthday(d[i].rec.birthday.date, today)
         IN  IF Raised(nb) THEN nb
             ELSE IF InWindow(nb.val, today)
             THEN UpcomingFrom(d, today, i + 1,
                      Append(acc,
                          [name |-> d[i].rec.name,
                           congratulation_date |-> strftime(adjust_for_weekend(nb.val))]))
             ELSE UpcomingFrom(d, today, i + 1, acc)

\* AddressBook.get_upcoming_birthdays, datetime.today().date() being today.
get_upcoming_birthdays(d, today) == OnData(UpcomingFrom(d, today, 1, <<>>), d)

(******************************* inputs ************************************)
Ann == <<"A", "n", "n">>

Bob == <<"B", "o", "b">>

Names == {Ann, Bob}

PhoneA == <<"1", "2", "3", "4", "5", "6", "7", "8", "9", "0">>

PhoneB == <<"0", "9", "8", "7", "6", "5", "4", "3", "2", "1">>

\* Ten characters, each U+00B2.
PhoneSup == [i \in 1..10 |-> SupTwo]

PhoneShort == <<"1", "2", "3", "4", "5">>

PhoneLong == PhoneA \o <<"1">>

PhoneAlpha == <<"1", "2", "3", "4", "5", "a", "b", "c", "d", "e">>

PhoneInputs == {PhoneA, PhoneB, PhoneSup, PhoneShort, PhoneLong, PhoneAlpha, <<>>}

\* Birthdays as typed: days around the turn of the year and the end of February.
BirthdayDates ==
    {Date(1980, 12, 25), Date(1990, 12, 30), Date(1985, 12, 31), Date(2000, 1, 1),
     Date(1995, 1, 6), Date(2000, 2, 29), Date(1999, 3, 2), Date(2001, 3, 3)}

BirthdayBad ==
    {<<"3", "1", ".", "0", "2", ".", "2", "0", "0", "0">>,
     <<"2", "0", "0", "0", "-", "0", "1", "-", "0", "1">>}

BirthdayInputs == {strftime(dt) : dt \in BirthdayDates} \cup BirthdayBad

\* The values datetime.today().date() takes.
TodayBases == {Date(2023, 12, 24), Date(2024, 2, 23)}

Todays == {AddDays(b, k) : b \in TodayBases, k \in 0..TodaySpan}

\* The days the birthdays command is typed on.
CmdTodays == {Date(2023, 12, 30), Date(2024, 2, 25), Date(2024, 3, 1)}

\* Records as the Record API builds them, for add_record.
RecordInputs ==
    {[name |-> n, phones |-> ps, birthday |-> b] :
        n \in Names,
        ps \in {<<>>, <<Phone(PhoneA).val>>, <<Phone(PhoneB).val, Phone(PhoneA).val>>},
        b \in {None, Birthday(strftime(Date(2000, 1, 1))).val}}

(******************************* state *************************************)
\* A call as ret keeps it: the method, its arguments, the dict as it was when
\* the call was made, and the outcome.
Call(op, args, r) ==
    [op |-> op, args |-> args, before |-> data, err |-> r.err, msg |-> r.msg, val |-> r.val]

Said(kind, text) == [kind |-> kind, text |-> text]

\* main before its first input(): an empty book, the welcome printed.
Init ==
    /\ data = <<>>
    /\ ret = [op |-> "none", args |-> <<>>, before |-> <<>>,
              err |-> "None", msg |-> "", val |-> None]
    /\ out = Said("print", Str("Welcome to the assistant bot!", <<>>))
    /\ pc = "running"

\* The record stored under name, as book.find(name) hands it out.
RecOf(d, name) == find(d, name).val

\* The dict after a method changed the record object stored under name.
WithRec(d, name, rec) == [d EXCEPT ![FirstIndex(KeyIndices(d, name))].rec = rec]

(*************************** calls on the API ******************************)
\* book.add_record(record)
AddRecord(record) ==
    /\ LET r == add_record(data, record)
       IN  data' = r.data /\ ret' = Call("add_record", <<record>>, r)
    /\ UNCHANGED <<out, pc>>

\* book.find(name)
Find(name) ==
    /\ ret' = Call("find", <<name>>, find(data, name))
    /\ UNCHANGED <<data, out, pc>>

\* book.delete(name)
Delete(name) ==
    /\ LET r == delete(data, name)
       IN  data' = r.data /\ ret' = Call("delete", <<name>>, r)
    /\ UNCHANGED <<out, pc>>

\* book.find(name).add_phone(phone)
AddPhone(name, phone) ==
    /\ name \in Keys(data)
    /\ Len(RecOf(data, name).phones) < MaxPhones
    /\ LET r == add_phone(RecOf(data, name), phone)
       IN  data' = WithRec(data, name, r.self) /\ ret' = Call("add_phone", <<name, phone>>, r)
    /\ UNCHANGED <<out, pc>>

\* book.find(name).remove_phone(phone)
RemovePhone(name, phone) ==
    /\ name \in Keys(data)
    /\ LET r == remove_phone(RecOf(data, name), phone)
       IN  data' = WithRec(data, name, r.self) /\ ret' = Call("remove_phone", <<name, phone>>, r)
    /\ UNCHANGED <<out, pc>>

\* book.find(name).edit_phone(old_phone, new_phone)
EditPhone(name, old_phone, new_phone) ==
    /\ name \in Keys(data)
    /\ LET r == edit_phone(RecOf(data, name), old_phone, new_phone)
       IN  /\ data' = WithRec(data, name, r.self)
           /\ ret' = Call("edit_phone", <<name, old_phone, new_phone>>, r)
    /\ UNCHANGED <<out, pc>>

\* book.find(name).find_phone(phone)
FindPhone(name, phone) ==
    /\ name \in Keys(data)
    /\ ret' = Call("find_phone", <<name, phone>>, find_phone(RecOf(data, name), phone))
    /\ UNCHANGED <<data, out, pc>>

\* book.find(name).add_birthday(date)
AddBirthday(name, date) ==
    /\ name \in Keys(data)
    /\ LET r == add_birthday(RecOf(data, name), date)
       IN  data' = WithRec(data, name, r.self) /\ ret' = Call("add_birthday", <<name, date>>, r)
    /\ UNCHANGED <<out, pc>>

\* book.get_upcoming_birthdays(), called on the day today
GetUpcomingBirthdays(today) ==
    /\ ret' = Call("get_upcoming_birthdays", <<today>>, get_upcoming_birthdays(data, today))
    /\ UNCHANGED <<data, out, pc>>

(**************************** specifications *******************************)
\* The AddressBook as a mapping: add_record, find, delete.
NextBook ==
    \/ \E record \in RecordInputs : AddRecord(record)
    \/ \E name \in Names : Find(name)
    \/ \E name \in Names : Delete(name)

SpecBook == Init /\ [][NextBook]_vars

\* One record and its phone list.
NextPhones ==
    \/ AddRecord(Record(Ann))
    \/ \E phone \in PhoneInputs : AddPhone(Ann, phone)
    \/ \E phone \in PhoneInputs : RemovePhone(Ann, phone)
    \/ \E old_phone, new_phone \in PhoneInputs : EditPhone(Ann, old_phone, new_phone)
    \/ \E phone \in PhoneInputs : FindPhone(Ann, phone)

SpecPhones == Init /\ [][NextPhones]_vars

\* Records with birthdays and the upcoming-birthdays query.
NextBirthdays ==
    \/ \E name \in Names : AddRecord(Record(name))
    \/ \E name \in Names, date \in BirthdayInputs : AddBirthday(name, date)
    \/ \E today \in Todays : GetUpcomingBirthdays(today)

SpecBirthdays == Init /\ [][NextBirthdays]_vars

(***************************** command layer *******************************)
\* input_error: KeyError, ValueError and IndexError become the returned
\* str(e); any other exception leaves the wrapper.
input_error(r) ==
    IF r.err \in {"KeyError", "ValueError", "IndexError"}
    THEN [r EXCEPT !.err = "None", !.msg = "", !.val = Str(r.msg, <<>>)]
    ELSE r

\* "a, b = args": ValueError unless args has exactly two items.
UnpackTwo(args) ==
    IF Len(args) > 2 THEN Raise("ValueError", "too many values to unpack (expected 2)")
    ELSE IF Len(args) < 2 THEN Raise("ValueError", "not enough values to unpack (expected 2)")
    ELSE Ok(args)

\* Record.__str__
record_str(rec) ==
    Str("Contact name: {}, phones: {}{}",
        <<rec.name, [i \in 1..Len(rec.phones) |-> rec.phones[i].value],
          IF rec.birthday = None THEN None ELSE rec.birthday.value>>)

\* add_birthday(args, book), the command
add_birthday_command(args, d) ==
    input_error(
        IF Raised(UnpackTwo(args)) THEN OnData(UnpackTwo(args), d)
        ELSE LET name == args[1]
                 birthday == args[2]
                 record == find(d, name).val
                 r == add_birthday(record, birthday)
             IN  IF record = None
                 THEN OnData(Ok(Str("No contact with name {} found.", <<name>>)), d)
                 ELSE IF Raised(r) THEN OnData(r, d)
                 ELSE OnData(Ok(Str("Birthday {} added to contact {}.", <<birthday, name>>)),
                             WithRec(d, name, r.self)))

\* show_birthday(args, book)
show_birthday(args, d) ==
    input_error(
        IF Len(args) = 0 THEN OnData(Raise("IndexError", "list index out of range"), d)
        ELSE LET name == args[1]
                 record == find(d, name).val
             IN  IF record # None /\ record.birthday # None
                 THEN OnData(Ok(Str("{}'s birthday is on {}", <<name, record.birthday.value>>)), d)
                 ELSE OnData(Ok(Str("No birthday information for {}.", <<name>>)), d))

\* birthdays(book), called on the day today
birthdays(d, today) ==
    input_error(
        LET upcoming == get_upcoming_birthdays(d, today)
        IN  IF Raised(upcoming) THEN upcoming
            ELSE IF Len(upcoming.val) = 0 THEN OnData(Ok(Str("No upcoming birthdays.", <<>>)), d)
            ELSE OnData(Ok(Str("Upcoming birthdays:", upcoming.val)), d))

\* add_contact, were it to add the new record to the book before the phone.
add_contact_record_first(args, d) ==
    input_error(
        IF Raised(UnpackTwo(args)) THEN OnData(UnpackTwo(args), d)
        ELSE LET name == args[1]
                 phone == args[2]
                 record == find(d, name).val
                 held == IF record # None THEN d ELSE add_record(d, Record(name)).data
                 r == add_phone(IF record # None THEN record ELSE Record(name), phone)
             IN  IF Raised(r) THEN OnData(r, held)
                 ELSE IF record # None
                 THEN OnData(Ok(Str("Phone {} added to contact {}.", <<phone, name>>)),
                             WithRec(held, name, r.self))
                 ELSE OnData(Ok(Str("Contact {} with phone {} added.", <<name, phone>>)),
                             WithRec(held, name, r.self)))

\* add_contact(args, book)
add_contact(args, d) ==
    input_error(
        IF Raised(UnpackTwo(args)) THEN OnData(UnpackTwo(args), d)
        ELSE LET name == args[1]
                 phone == args[2]
                 record == find(d, name).val
                 r == add_phone(IF record # None THEN record ELSE Record(name), phone)
             IN  IF Raised(r) THEN OnData(r, d)
                 ELSE IF record # None
                 THEN OnData(Ok(Str("Phone {} added to contact {}.", <<phone, name>>)),
                             WithRec(d, name, r.self))
                 ELSE OnData(Ok(Str("Contact {} with phone {} added.", <<name, phone>>)),
                             add_record(d, r.self).data))

\* change_contact(args, book)
change_contact(args, d) ==
    input_error(
        IF Raised(UnpackTwo(args)) THEN OnData(UnpackTwo(args), d)
        ELSE LET name == args[1]
                 new_phone == args[2]
                 record == find(d, name).val
                 r == edit_phone(record, record.phones[1].value, new_phone)
             IN  IF record = None
                 THEN OnData(Ok(Str("No contact with name {} found.", <<name>>)), d)
                 ELSE IF Len(record.phones) = 0
                 THEN OnData(Raise("IndexError", "list index out of range"), d)
                 ELSE IF Raised(r) THEN OnData(r, d)
                 ELSE OnData(Ok(Str("Phone number for {} changed to {}.", <<name, new_phone>>)),
                             WithRec(d, name, r.self)))

\* show_phone(args, book)
show_phone(args, d) ==
    input_error(
        IF Len(args) = 0 THEN OnData(Raise("IndexError", "list index out of range"), d)
        ELSE LET name == args[1]
                 record == find(d, name).val
             IN  IF record # None /\ Len(record.phones) > 0
                 THEN OnData(Ok(Str("{}'s phone numbers are: {}",
                                    <<name, [i \in 1..Len(record.phones) |->
                                                record.phones[i].value]>>)), d)
                 ELSE OnData(Ok(Str("No phone numbers for {} found.", <<name>>)), d))

\* show_all(book)
show_all(d) ==
    input_error(
        IF Len(d) = 0 THEN OnData(Ok(Str("No contacts found.", <<>>)), d)
        ELSE OnData(Ok(Str("Contacts:", [i \in 1..Len(d) |-> record_str(d[i].rec)])), d))

\* parse_input(user_input): (cmd, args), or the str input_error makes of the
\* ValueError that "cmd, *args = []" raises.
parse_input(user_input) ==
    input_error(
        LET words == split(strip(user_input))
        IN  IF Len(words) = 0
            THEN Raise("ValueError", "not enough values to unpack (expected at least 1, got 0)")
            ELSE Ok(Tuple(<<lower(words[1]), Tail(words)>>)))

(******************************** main *************************************)
W_close == <<"c", "l", "o", "s", "e">>

W_exit == <<"e", "x", "i", "t">>

W_hello == <<"h", "e", "l", "l", "o">>

W_add == <<"a", "d", "d">>

W_change == <<"c", "h", "a", "n", "g", "e">>

W_phone == <<"p", "h", "o", "n", "e">>

W_all == <<"a", "l", "l">>

W_add_birthday == <<"a", "d", "d", "-", "b", "i", "r", "t", "h", "d", "a", "y">>

W_show_birthday == <<"s", "h", "o", "w", "-", "b", "i", "r", "t", "h", "d", "a", "y">>

W_birthdays == <<"b", "i", "r", "t", "h", "d", "a", "y", "s">>

KnownCommands ==
    {W_close, W_exit, W_hello, W_add, W_change, W_phone, W_all, W_add_birthday,
     W_show_birthday, W_birthdays}

\* The words of a line, one space between them.
RECURSIVE Join(_)
Join(words) ==
    IF Len(words) = 0 THEN <<>>
    ELSE IF Len(words) = 1 THEN words[1]
    ELSE words[1] \o <<" ">> \o Join(Tail(words))

CmdPhones == {PhoneA, PhoneB, PhoneShort}

CmdBirthdays == {strftime(Date(2000, 2, 29)), <<"x">>}

\* What input() returns: commands with the right, too few and too many
\* arguments, in either case, an unknown command, an empty and a blank line.
Lines ==
    {<<>>, <<" ", "\t">>, <<"f", "o", "o">>, <<" ">> \o <<"H", "e", "l", "l", "o">> \o <<" ">>}
    \cup {Join(<<c>>) : c \in KnownCommands}
    \cup {Join(<<c, n>>) : c \in {W_add, W_change, W_phone, W_show_birthday, W_add_birthday},
                           n \in Names}
    \cup {Join(<<c, n, ph>>) : c \in {W_add, W_change}, n \in Names, ph \in CmdPhones}
    \cup {Join(<<W_add_birthday, n, b>>) : n \in Names, b \in CmdBirthdays}
    \cup {Join(<<c, Ann, PhoneA, PhoneB>>) : c \in {W_add, W_change, W_add_birthday}}
    \cup {Join(<<<<"A", "D", "D">>, Bob, PhoneB>>)}

\* parse_input of every line.
Parsed == [line \in Lines |-> parse_input(line).val]

\* The lines main dispatches to the branch of one of the words.
LinesOf(words) ==
    {line \in Lines : Parsed[line].type = "tuple" /\ Parsed[line].items[1] \in words}

CloseLines == LinesOf({W_close, W_exit})

HelloLines == LinesOf({W_hello})

AddLines == LinesOf({W_add})

ChangeLines == LinesOf({W_change})

PhoneLines == LinesOf({W_phone})

AllLines == LinesOf({W_all})

AddBirthdayLines == LinesOf({W_add_birthday})

ShowBirthdayLines == LinesOf({W_show_birthday})

BirthdaysLines == LinesOf({W_birthdays})

OtherLines == {line \in Lines : Parsed[line].type = "tuple"} \ LinesOf(KnownCommands)

\* The lines for which parse_input returns a str, which "cmd, args = ..."
\* unpacks only when it has two characters.
UnpackFailLines ==
    {line \in Lines : Parsed[line].type = "str" /\ Len(Parsed[line].fmt) # 2}

ArgsOf(line) == Parsed[line].items[2]

\* No phone list of the book is longer than the bound.
WithinBound(d) == \A i \in 1..Len(d) : Len(d[i].rec.phones) <= MaxCmdPhones

\* print(handler(...)): the handler's str is printed; an exception that
\* input_error does not catch leaves main.
PrintResult(r) ==
    /\ data' = r.data
    /\ out' = IF Raised(r) THEN Said("traceback", Str(r.msg, <<>>)) ELSE Said("print", r.val)
    /\ pc' = IF Raised(r) THEN "crashed" ELSE "running"
    /\ UNCHANGED ret

PrintUsage(text) ==
    /\ out' = Said("print", Str(text, <<>>))
    /\ UNCHANGED <<data, ret, pc>>

\* "cmd, args = parse_input(user_input)" raises ValueError: nothing catches it.
MainUnpackFails ==
    /\ pc = "running"
    /\ \E line \in UnpackFailLines :
        /\ out' = Said("traceback", Str("ValueError: too many values to unpack (expected 2)", <<>>))
        /\ pc' = "crashed"
        /\ UNCHANGED <<data, ret>>

MainClose ==
    /\ pc = "running"
    /\ \E line \in CloseLines :
        /\ out' = Said("print", Str("Good bye!", <<>>))
        /\ pc' = "exited"
        /\ UNCHANGED <<data, ret>>

MainHello ==
    /\ pc = "running"
    /\ \E line \in HelloLines : PrintUsage("How can I help you?")

MainAdd ==
    /\ pc = "running"
    /\ \E line \in AddLines :
        IF Len(ArgsOf(line)) < 2
        THEN PrintUsage("Invalid command format. Use: add [name] [phone]")
        ELSE LET r == add_contact(ArgsOf(line), data)
             IN  WithinBound(r.data) /\ PrintResult(r)

MainChange ==
    /\ pc = "running"
    /\ \E line \in ChangeLines :
        IF Len(ArgsOf(line)) < 2
        THEN PrintUsage("Invalid command format. Use: change [name] [new phone]")
        ELSE PrintResult(change_contact(ArgsOf(line), data))

MainPhone ==
    /\ pc = "running"
    /\ \E line \in PhoneLines :
        IF Len(ArgsOf(line)) < 1
        THEN PrintUsage("Invalid command format. Use: phone [name]")
        ELSE PrintResult(show_phone(ArgsOf(line), data))

MainAll ==
    /\ pc = "running"
    /\ \E line \in AllLines : PrintResult(show_all(data))

MainAddBirthday ==
    /\ pc = "running"
    /\ \E line \in AddBirthdayLines :
        IF Len(ArgsOf(line)) < 2
        THEN PrintUsage("Invalid command format. Use: add-birthday [name] [birthday]")
        ELSE PrintResult(add_birthday_command(ArgsOf(line), data))

MainShowBirthday ==
    /\ pc = "running"
    /\ \E line \in ShowBirthdayLines :
        IF Len(ArgsOf(line)) < 1
        THEN PrintUsage("Invalid command format. Use: show-birthday [name]")
        ELSE PrintResult(show_birthday(ArgsOf(line), data))

MainBirthdays ==
    /\ pc = "running"
    /\ \E line \in BirthdaysLines, today \in CmdTodays : PrintResult(birthdays(data, today))

MainInvalid ==
    /\ pc = "running"
    /\ \E line \in OtherLines : PrintUsage("Invalid command.")

\* One turn of the while loop of main.
NextMain ==
    \/ MainUnpackFails
    \/ MainClose
    \/ MainHello
    \/ MainAdd
    \/ MainChange
    \/ MainPhone
    \/ MainAll
    \/ MainAddBirthday
    \/ MainShowBirthday
    \/ MainBirthdays
    \/ MainInvalid

SpecMain == Init /\ [][NextMain]_vars

\* The whole program: every call on the API and every turn of main.
Next == NextBook \/ NextPhones \/ NextBirthdays \/ NextMain

Spec == Init /\ [][Next]_vars

(****************************** properties *********************************)
\* The record the dict holds under a key.
Stored(d, k) == d[CHOOSE i \in 1..Len(d) : d[i].key = k].rec

\* The values of the phones of the record under a key.
PhoneValues(d, k) == [i \in 1..Len(Stored(d, k).phones) |-> Stored(d, k).phones[i].value]

\* The birthday's day and month in year y, as an ordinal.
ClaimOrdinalIn(bd, y) == toordinal(Date(y, bd.month, bd.day))

\* The ordinal of the next birthday: in today's year, or in the following year
\* when that day is strictly before today.
ClaimNextOrdinal(bd, today) ==
    IF ClaimOrdinalIn(bd, today.year) < toordinal(today)
    THEN ClaimOrdinalIn(bd, today.year + 1)
    ELSE ClaimOrdinalIn(bd, today.year)

ClaimQualifies(bd, today) ==
    /\ 0 <= ClaimNextOrdinal(bd, today) - toordinal(today)
    /\ ClaimNextOrdinal(bd, today) - toordinal(today) <= 7

\* The names the last get_upcoming_birthdays returned.
ListedNames == IF Raised(ret) THEN {} ELSE {ret.val[j].name : j \in 1..Len(ret.val)}

\* C1: after get_upcoming_birthdays(today), every record with a birthday
\* (29 February set aside: its day is missing from most years) is in the
\* result if and only if its next birthday is 0 to 7 days after today.
C1_ListedIffInWindow ==
    ret.op = "get_upcoming_birthdays" =>
        \A i \in 1..Len(data) :
            LET rec == data[i].rec
            IN  (rec.birthday # None /\ ~(rec.birthday.date.month = 2 /\ rec.birthday.date.day = 29))
                => (rec.name \in ListedNames <=> ClaimQualifies(rec.birthday.date, ret.args[1]))

\* The days the congratulation moves forward from a birthday on weekday wd.
ClaimShift(wd) == IF wd = 5 THEN 2 ELSE IF wd = 6 THEN 1 ELSE 0

\* What the claim has get_upcoming_birthdays return: the qualifying records
\* in the book's order, each with its next birthday moved off the weekend.
ClaimUpcoming(d, today) ==
    LET q == SelectSeq(d, LAMBDA item : /\ item.rec.birthday # None
                                        /\ ClaimQualifies(item.rec.birthday.date, today))
    IN  [j \in 1..Len(q) |->
            LET nb == ClaimNextOrdinal(q[j].rec.birthday.date, today)
            IN  [name |-> q[j].rec.name,
                 congratulation_date |->
                     strftime(fromordinal(nb + ClaimShift((nb + 6) % 7)))]]

\* C2: when get_upcoming_birthdays returns, its list is the qualifying
\* records, none dropped, each with the next birthday itself on Monday to
\* Friday, 2 days later on a Saturday and 1 day later on a Sunday; the date
\* printed is no weekend day and 0 to 2 days after the next birthday.
C2_CongratulationDate ==
    (ret.op = "get_upcoming_birthdays" /\ ~Raised(ret)) =>
        /\ ret.val = ClaimUpcoming(data, ret.args[1])
        /\ \A j \in 1..Len(ret.val) :
            LET shown == strptime(ret.val[j].congratulation_date)
                nb == ClaimNextOrdinal(Stored(data, ret.val[j].name).birthday.date, ret.args[1])
            IN  /\ ~Raised(shown)
                /\ weekday(shown.val) < 5
                /\ nb <= toordinal(shown.val)
                /\ toordinal(shown.val) <= nb + 2

\* C2's case: a listed record whose congratulation date is more than 7 days
\* after today.
C2_Witness ==
    /\ ret.op = "get_upcoming_birthdays"
    /\ ~Raised(ret)
    /\ \E j \in 1..Len(ret.val) :
        DaysBetween(strptime(ret.val[j].congratulation_date).val, ret.args[1]) > 7

\* C3: get_upcoming_birthdays never raises.
C3_NeverRaises == ret.op = "get_upcoming_birthdays" => ~Raised(ret)

UniqueKeys(d) == \A i, j \in 1..Len(d) : d[i].key = d[j].key => i = j

\* C4: the book holds at most one record per name; add_record(r) succeeds,
\* leaves r as the record under r.name and no other entry changed.
C4_AddRecordOverwrites ==
    [][/\ UniqueKeys(data')
       /\ ret'.op = "add_record" =>
            LET r == ret'.args[1]
            IN  /\ ~Raised(ret')
                /\ Keys(data') = Keys(data) \cup {r.name}
                /\ Stored(data', r.name) = r
                /\ find(data', r.name).val = r
                /\ \A k \in Keys(data) \ {r.name} : Stored(data', k) = Stored(data, k)]_vars

\* C4's case: add_record of a record with no phone and no birthday, on a book
\* of two entries that held two phones and a birthday under its name.
C4_Witness ==
    /\ ret.op = "add_record"
    /\ Len(ret.before) = 2
    /\ ret.args[1].name \in Keys(ret.before)
    /\ Len(Stored(ret.before, ret.args[1].name).phones) = 2
    /\ Stored(ret.before, ret.args[1].name).birthday # None
    /\ ret.args[1].phones = <<>>
    /\ ret.args[1].birthday = None

\* C5: delete(name) of a missing name raises KeyError and changes nothing;
\* of a present name it removes that entry alone, and find(name) then
\* returns None.
C5_Delete ==
    [][ret'.op = "delete" =>
        LET name == ret'.args[1]
        IN  IF name \notin Keys(data)
            THEN ret'.err = "KeyError" /\ data' = data
            ELSE /\ ~Raised(ret')
                 /\ Keys(data') = Keys(data) \ {name}
                 /\ Len(data') = Len(data) - 1
                 /\ \A k \in Keys(data') : Stored(data', k) = Stored(data, k)
                 /\ ~Raised(find(data', name))
                 /\ find(data', name).val = None]_vars

\* C5's case: a delete that succeeded and left another entry in the book.
C5_Witness ==
    /\ ret.op = "delete"
    /\ ~Raised(ret)
    /\ Len(ret.before) = 2
    /\ Len(data) = 1

\* A phone text that Phone(...) accepts.
Accepted(text) == ~Raised(Phone(text))

C7_StoredPhonesAreTenDecimalDigits ==
    \A i \in 1..Len(data) :
        \A j \in 1..Len(data[i].rec.phones) :
            LET v == data[i].rec.phones[j].value
            IN  Len(v) = 10 /\ \A c \in 1..10 : AsciiDigit(v[c])

\* C8: main never ends on an exception; it leaves the loop by close or exit.
C8_NoErrorIsFatal == pc # "crashed"

\* A sequence without the items equal to v, the others in their order.
RECURSIVE Without(_, _)
Without(seq, v) ==
    IF Len(seq) = 0 THEN <<>>
    ELSE IF seq[1] = v THEN Without(Tail(seq), v)
    ELSE <<seq[1]>> \o Without(Tail(seq), v)

\* C9: remove_phone(raw) never raises, removes every phone equal to raw and
\* keeps the others in order (nothing changes when none is equal); find_phone
\* of raw then returns None.
C9_RemovePhone ==
    [][ret'.op = "remove_phone" =>
        LET name == ret'.args[1]
            raw == ret'.args[2]
            before == PhoneValues(data, name)
            after == PhoneValues(data', name)
        IN  /\ ~Raised(ret')
            /\ after = Without(before, raw)
            /\ \A i \in 1..Len(after) : after[i] # raw
            /\ (\A i \in 1..Len(before) : before[i] # raw) => data' = data
            /\ Stored(data', name).birthday = Stored(data, name).birthday
            /\ ~Raised(find_phone(Stored(data', name), raw))
            /\ find_phone(Stored(data', name), raw).val = None]_vars

\* C9's case: a remove_phone that took two equal phones out of a list of
\* three, around the one it left.
C9_Witness ==
    /\ ret.op = "remove_phone"
    /\ Len(PhoneValues(ret.before, ret.args[1])) = 3
    /\ PhoneValues(ret.before, ret.args[1])[1] = ret.args[2]
    /\ PhoneValues(ret.before, ret.args[1])[3] = ret.args[2]
    /\ Len(PhoneValues(data, ret.args[1])) = 1

EveryRecordHasPhone(d) == \A i \in 1..Len(d) : Len(d[i].rec.phones) >= 1

WrongFormat == Str("Wrong format! Phone number must be 10 digits long.", <<>>)

====
